---- MODULE Spec2Model ----
(***************************************************************************)
(* Ash Album: the background media pipeline.                               *)
(*   - ThumbnailWorker (src/src/thumb_loader.py): a worker thread that     *)
(*     consumes a mutex-guarded queue of paths, with a consumer thread     *)
(*     calling enqueue / enqueue_batch / prioritize / invalidate / stop.   *)
(*   - ScannerWorker (src/src/scanner.py): the recursive folder scan.      *)
(* Every step of a thread between two points where the other thread can    *)
(* observe or change shared state is one action.                           *)
(***************************************************************************)
EXTENDS Naturals, Sequences, FiniteSets, TLC

\* ------------------------------------------------------------------ bounds
\* longest argument list of enqueue_batch / prioritize
MaxArgLen == 2
\* number of invalidate(P) calls the consumer makes in one behaviour
MaxInvalidate == 1

\* ------------------------------------------------------------------ values
\* the source files the consumer asks thumbnails for: one photo, one video
Paths == {"a.jpg", "b.mp4"}
\* the path whose attempts, emissions and files the history follows; the other
\* path competes with it for the queue and the worker
P == "a.jpg"
None == "None"
\* what a source file holds: the picture before and after an edit
Contents == {"v1", "v2"}
\* a cache file: absent, present but undecodable, or the JPEG of a content
NoFile == "nofile"
BadFile == "badfile"

ArgLists == UNION {[1..n -> Paths] : n \in 0..MaxArgLen}

VARIABLES
    \* ---- ThumbnailWorker fields
    queue,        \* self._queue
    processed,    \* self._processed
    stopFlag,     \* self._stop
    mutex,        \* self._mutex: "free", "worker" or "consumer"
    \* ---- the worker thread (run)
    wpc,          \* position in run()
    cur,          \* file_path
    \* ---- the consumer thread
    cpc,          \* "idle", or "stop" between the two halves of stop()
    \* ---- the disk, as far as P goes
    src,          \* contents of the source file P
    cache,        \* the cache file of P (self._cache_path(P))
    \* ---- observation of the run (history)
    hist,
    \* ---- ScannerWorker
    scan,
    \* ---- the last queue call, with the queue and set it found (history; kept
    \* only when the calls are looked at one by one)
    call

thumbVars == <<queue, processed, stopFlag, mutex, wpc, cur, cpc, src, cache, hist>>
vars == <<queue, processed, stopFlag, mutex, wpc, cur, cpc, src, cache, hist, scan, call>>

\* ------------------------------------------------------------------ helpers
Range(s) == {s[i] : i \in DOMAIN s}
InSeq(x, s) == \E i \in DOMAIN s : s[i] = x
Count(x, s) == Cardinality({i \in DOMAIN s : s[i] = x})
NoRepeat(s) == \A i, j \in DOMAIN s : s[i] = s[j] => i = j

RECURSIVE Filter(_, _)
\* [x for x in s if x in S]
Filter(s, S) ==
    IF s = <<>> THEN <<>>
    ELSE IF Head(s) \in S THEN <<Head(s)>> \o Filter(Tail(s), S)
    ELSE Filter(Tail(s), S)


\* ------------------------------------------------------------------ queue API
\* enqueue: the test of line 42
EnqueueNoProcessedTest(q, proc, p) == ~InSeq(p, q)
EnqueueAccepts(q, proc, p) == p \notin proc /\ ~InSeq(p, q)

\* enqueue that puts the path in front
EnqueueInFront(q, proc, p) == IF EnqueueAccepts(q, proc, p) THEN <<p>> \o q ELSE q
\* enqueue(file_path): the queue after the call
EnqueueQueue(q, proc, p) == IF EnqueueAccepts(q, proc, p) THEN Append(q, p) ELSE q

\* enqueue_batch: the test of line 50 (and the test without its second half)
BatchNoQueueTest(q, proc, fp) == fp \notin proc
BatchAccepts(q, proc, fp) == fp \notin proc /\ ~InSeq(fp, q)

RECURSIVE EnqueueBatchQueue(_, _, _)
\* enqueue_batch(paths): the loop of lines 49-51
EnqueueBatchQueue(q, proc, ps) ==
    IF ps = <<>> THEN q
    ELSE IF BatchAccepts(q, proc, Head(ps))
        THEN EnqueueBatchQueue(Append(q, Head(ps)), proc, Tail(ps))
    ELSE EnqueueBatchQueue(q, proc, Tail(ps))

\* prioritize(paths): front in the order of the queue (what a stable partition does)
PrioritizeStable(q, ps) == Filter(q, Range(ps)) \o Filter(q, Range(q) \ Range(ps))
\* prioritize(paths): lines 58-61; front walks the ARGUMENT, rest walks the queue
PrioritizeQueue(q, ps) == Filter(ps, Range(q)) \o Filter(q, Range(q) \ Range(ps))

\* ------------------------------------------------------------------ generation
\* _load_or_generate: does the cache file decode (lines 109-112)
CacheHit(c) == c \in Contents
\* _image_thumb / _video_thumb: the scaled picture of the file's contents, or
\* None when the file cannot be opened or decoded (or cv2 is missing)
Generate(s, readable) == IF readable /\ s \in Contents THEN s ELSE None
\* _load_or_generate: lines 114-118 are reached unless line 112 returned (and
\* the routine that generates whatever the cache holds)
GeneratesAlways(c) == TRUE
Generates(c) == ~CacheHit(c)
\* _load_or_generate: the image returned
LoadOrGenerate(c, s, readable) == IF Generates(c) THEN Generate(s, readable) ELSE c
\* _load_or_generate: the cache file afterwards (lines 120-121)
CacheAfter(c, s, readable) ==
    IF ~Generates(c) THEN c
    ELSE IF Generate(s, readable) # None THEN Generate(s, readable) ELSE c

\* run, line 96: if img and not img.isNull() (and the emit made whatever came back)
EmitsAlways(img) == TRUE
Emits(img) == img # None

\* ------------------------------------------------------------------ initial state
\* what has happened to P so far
HistInit ==
    [ attempts  |-> 0,          \* _load_or_generate(P) calls started
      finished  |-> 0,          \* ... and returned
      emits     |-> 0,          \* thumbnail_ready(P) emissions
      invals    |-> 0,          \* invalidate(P) calls
      again     |-> "no",       \* the first further enqueue of P: "raced", an enqueue(P) that
                                \* appended P between the pop of P and its add; "late", an
                                \* enqueue(P) or a batch with P called with P processed
      inv       |-> "none",     \* "inv": invalidate(P) found P processed; "invEnq": enqueue(P)
                                \* followed; "regen": the attempt under way follows a generation
                                \* that wrote the cache file, invalidate(P) and enqueue(P)
      stopped   |-> FALSE,      \* stop() has returned
      postStop  |-> 0 ]         \* emissions (of any path) after stop() returned

ScanIdle == [pc |-> "idle"]

InitThumb ==
    /\ queue = <<>>
    /\ processed = {}
    /\ stopFlag = FALSE
    /\ mutex = "free"
    /\ wpc = "loop"
    /\ cur = None
    /\ cpc = "idle"
    /\ src = "v1"
    /\ cache = NoFile
    /\ hist = HistInit

\* no record of the calls is kept
Off == [op |-> "off", arg |-> <<>>, queue |-> <<>>, processed |-> {}]
\* the record of a call
Called(op, arg) ==
    IF call.op \in {"off", "noload", "load", "listed", "hidden", "restored"} THEN call
    ELSE [op |-> op, arg |-> arg, queue |-> queue, processed |-> processed]

\* the record of an attempt: the cache file it found, whether the generation
\* routine was called, and the image thumbnail_ready carried (None: no emit)
Loaded(p, c, img) ==
    IF call.op \notin {"noload", "load"} THEN call
    ELSE [op |-> "load",
          arg |-> <<p, c, IF Generates(c) THEN "generated" ELSE "cached",
                    IF Emits(img) THEN img ELSE None>>,
          queue |-> <<>>, processed |-> {}]

Init == InitThumb /\ scan = ScanIdle /\ call = Off

\* ------------------------------------------------------------------ worker thread
\* wakeOne / wakeAll: the single waiter leaves the wait and must take the mutex again
WokenNever(pc) == pc
Woken(pc) == IF pc = "waiting" THEN "woken" ELSE pc

\* line 80: while not self._stop
WLoopTest ==
    /\ wpc = "loop"
    /\ wpc' = IF stopFlag THEN "done" ELSE "lock"
    /\ UNCHANGED <<queue, processed, stopFlag, mutex, cur, cpc, src, cache, hist, scan, call>>

\* line 81: self._mutex.lock()
WLock ==
    /\ wpc = "lock"
    /\ mutex = "free"
    /\ mutex' = "worker"
    /\ wpc' = "test"
    /\ UNCHANGED <<queue, processed, stopFlag, cur, cpc, src, cache, hist, scan, call>>

\* line 82: while not self._queue and not self._stop
WTest ==
    /\ wpc = "test"
    /\ wpc' = IF queue = <<>> /\ ~stopFlag THEN "wait" ELSE "chk_stop"
    /\ UNCHANGED <<queue, processed, stopFlag, mutex, cur, cpc, src, cache, hist, scan, call>>

\* line 83: self._cond.wait(self._mutex) releases the mutex and blocks, in one step
WWait ==
    /\ wpc = "wait"
    /\ wpc' = "waiting"
    /\ mutex' = "free"
    /\ UNCHANGED <<queue, processed, stopFlag, cur, cpc, src, cache, hist, scan, call>>

\* line 83: wait() returns once woken and the mutex is taken again
WWake ==
    /\ wpc = "woken"
    /\ mutex = "free"
    /\ mutex' = "worker"
    /\ wpc' = "test"
    /\ UNCHANGED <<queue, processed, stopFlag, cur, cpc, src, cache, hist, scan, call>>

\* line 84 with the stop flag ignored
StopSeenNever(flag) == FALSE
\* line 84: if self._stop
StopSeen(flag) == flag

\* lines 84-86
WChkStop ==
    /\ wpc = "chk_stop"
    /\ IF StopSeen(stopFlag)
       THEN wpc' = "done" /\ mutex' = "free"
       ELSE wpc' = "pop" /\ mutex' = mutex
    /\ UNCHANGED <<queue, processed, stopFlag, cur, cpc, src, cache, hist, scan, call>>

\* lines 87-88: file_path = self._queue.pop(0) if self._queue else None; unlock
WPop ==
    /\ wpc = "pop"
    /\ cur' = IF queue # <<>> THEN Head(queue) ELSE None
    /\ queue' = IF queue # <<>> THEN Tail(queue) ELSE queue
    /\ mutex' = "free"
    /\ wpc' = "chk_proc"
    /\ UNCHANGED <<processed, stopFlag, cpc, src, cache, hist, scan, call>>

\* line 90 without the membership test
SkipsNever(p, proc) == p = None
\* line 90: if file_path is None or file_path in self._processed: continue
Skips(p, proc) == p = None \/ p \in proc

\* lines 90-91 (file_path is dead after a continue: it is forgotten here)
WChkProc ==
    /\ wpc = "chk_proc"
    /\ IF Skips(cur, processed)
       THEN wpc' = "loop" /\ cur' = None
       ELSE wpc' = "add" /\ cur' = cur
    /\ UNCHANGED <<queue, processed, stopFlag, mutex, cpc, src, cache, hist, scan, call>>

\* lines 92-95: self._processed.add(file_path); the call of _load_or_generate starts
WAdd ==
    /\ wpc = "add"
    /\ processed' = processed \cup {cur}
    /\ wpc' = "gen"
    /\ hist' = IF cur = P
               THEN [hist EXCEPT !.attempts = @ + 1,
                                 !.inv = IF @ = "invEnq" /\ CacheHit(cache)
                                         THEN "regen" ELSE "none"]
               ELSE hist
    /\ UNCHANGED <<queue, stopFlag, mutex, cur, cpc, src, cache, scan, call>>

\* lines 95-99: _load_or_generate returns; emit when there is an image
WGen(readable) ==
    /\ wpc = "gen"
    \* the files of the other path are not followed: it has no cache file yet
    /\ LET c == IF cur = P THEN cache ELSE NoFile
           s == IF cur = P THEN src ELSE "v1"
           img == LoadOrGenerate(c, s, readable)
           after == [hist EXCEPT !.postStop = IF Emits(img) /\ hist.stopped THEN @ + 1 ELSE @]
       IN /\ cache' = IF cur = P THEN CacheAfter(c, s, readable) ELSE cache
          /\ hist' = IF cur = P
                     THEN [after EXCEPT
                            !.finished = @ + 1,
                            !.emits = IF Emits(img) THEN @ + 1 ELSE @,
                            !.inv = IF @ = "regen" THEN "none" ELSE @]
                     ELSE after
          /\ call' = IF cur = P THEN Loaded(cur, c, img) ELSE call
    /\ wpc' = "loop"
    /\ cur' = None
    /\ UNCHANGED <<queue, processed, stopFlag, mutex, cpc, src, scan>>

Worker == WLoopTest \/ WLock \/ WTest \/ WWait \/ WWake \/ WChkStop \/ WPop \/ WChkProc \/ WAdd
          \/ \E readable \in BOOLEAN : WGen(readable)

\* ------------------------------------------------------------------ consumer thread
\* A queue call holds the mutex from its first statement to its last, so the
\* worker can neither read nor change the queue inside it; the accesses the
\* worker makes without the mutex (lines 80, 90, 92) each touch one field once.
\* A call is therefore one step, possible when the mutex is free.  stop() writes
\* _stop before it takes the mutex: it is two steps.

\* enqueue, lines 41-45
Enqueue(p) ==
    /\ cpc = "idle" /\ mutex = "free"
    /\ LET accepted == EnqueueAccepts(queue, processed, p)
       IN /\ queue' = EnqueueQueue(queue, processed, p)
          /\ wpc' = IF accepted THEN Woken(wpc) ELSE wpc
          /\ hist' = IF p = P
                     THEN [hist EXCEPT
                            !.again = IF @ # "no" THEN @
                                      ELSE IF p \in processed THEN "late"
                                      ELSE IF accepted /\ cur = p /\ wpc \in {"chk_proc", "add"}
                                          THEN "raced"
                                      ELSE @,
                            !.inv = IF @ = "inv" THEN "invEnq" ELSE @]
                     ELSE hist
    /\ UNCHANGED <<processed, stopFlag, mutex, cur, cpc, src, cache, scan>>
    /\ call' = Called("enqueue", <<p>>)

\* enqueue_batch, lines 48-53
EnqueueBatch(ps) ==
    /\ cpc = "idle" /\ mutex = "free"
    /\ queue' = EnqueueBatchQueue(queue, processed, ps)
    /\ wpc' = Woken(wpc)
    /\ hist' = [hist EXCEPT !.again = IF @ = "no" /\ InSeq(P, ps) /\ P \in processed
                                      THEN "late" ELSE @]
    /\ UNCHANGED <<processed, stopFlag, mutex, cur, cpc, src, cache, scan>>
    /\ call' = Called("enqueue_batch", ps)

\* prioritize, lines 57-63
Prioritize(ps) ==
    /\ cpc = "idle" /\ mutex = "free"
    /\ queue' = PrioritizeQueue(queue, ps)
    /\ wpc' = Woken(wpc)
    /\ UNCHANGED <<processed, stopFlag, mutex, cur, cpc, src, cache, hist, scan>>
    /\ call' = Called("prioritize", ps)

\* invalidate that leaves the set alone
InvalidateNothing(proc, p) == proc
\* a set emptied by the call
InvalidateAll(proc, p) == {}
\* invalidate, line 68: self._processed.discard(path)
InvalidateProcessed(proc, p) == proc \ {p}

\* invalidate, lines 67-69
Invalidate(p) ==
    /\ cpc = "idle" /\ mutex = "free"
    /\ p = P => hist.invals < MaxInvalidate
    /\ processed' = InvalidateProcessed(processed, p)
    /\ hist' = IF p = P
               THEN [hist EXCEPT !.invals = @ + 1,
                                 !.inv = IF p \in processed THEN "inv" ELSE @]
               ELSE hist
    /\ UNCHANGED <<queue, stopFlag, mutex, wpc, cur, cpc, src, cache, scan>>
    /\ call' = Called("invalidate", <<p>>)

\* stop, line 72: the flag is set before the mutex is taken (a second stop()
\* sets a flag that is set and wakes a worker that is leaving: it is left out)
StopFlag ==
    /\ cpc = "idle"
    /\ ~stopFlag
    /\ stopFlag' = TRUE
    /\ cpc' = "stop"
    /\ UNCHANGED <<queue, processed, mutex, wpc, cur, src, cache, hist, scan, call>>

\* stop() that forgets the wake-up
StopWakeNone(pc) == pc
\* stop, line 74: self._cond.wakeAll()
StopWake(pc) == Woken(pc)

\* stop, lines 73-75: lock, wakeAll, unlock; stop() returns
StopWakeAll ==
    /\ cpc = "stop" /\ mutex = "free"
    /\ wpc' = StopWake(wpc)
    /\ cpc' = "idle"
    /\ hist' = [hist EXCEPT !.stopped = TRUE]
    /\ UNCHANGED <<queue, processed, stopFlag, mutex, cur, src, cache, scan, call>>

Consumer ==
    \/ \E p \in Paths : Enqueue(p) \/ Invalidate(p)
    \/ \E ps \in ArgLists : EnqueueBatch(ps) \/ Prioritize(ps)
    \/ StopFlag
    \/ StopWakeAll

\* the source file of P changes on disk: a crop saved over it
\* (crop_widget.py line 232)
Edit ==
    /\ cpc = "idle"
    /\ src = "v1"
    /\ src' = "v2"
    /\ UNCHANGED <<queue, processed, stopFlag, mutex, wpc, cur, cpc, cache, hist, scan, call>>

\* ------------------------------------------------------------------ specifications
Next == Worker \/ Consumer \/ Edit

Spec == Init /\ [][Next]_vars

\* the threads are scheduled: a step that stays possible is taken
FairSpec == Spec /\ WF_vars(Worker) /\ WF_vars(StopWakeAll)

\* The same, with a consumer that does not keep P from the head of the queue:
\* none of its prioritize calls moves the first entry P further back
FirstP(q) == CHOOSE i \in DOMAIN q : q[i] = P /\ \A j \in 1..(i - 1) : q[j] # P
Overtakes(q, ps) == InSeq(P, q) /\ FirstP(PrioritizeQueue(q, ps)) > FirstP(q)
ConsumerLive ==
    \/ \E p \in Paths : Enqueue(p) \/ Invalidate(p)
    \/ \E ps \in ArgLists : EnqueueBatch(ps) \/ (~Overtakes(queue, ps) /\ Prioritize(ps))
    \/ StopFlag
    \/ StopWakeAll
\* The queue calls one by one, on any queue without repeats and any processed
\* set the program can have built, the worker not running in between
DistinctSeqs ==
    {q \in UNION {[1..n -> Paths] : n \in 0..Cardinality(Paths)} : NoRepeat(q)}
InitApi ==
    /\ queue \in DistinctSeqs
    /\ processed \in SUBSET Paths
    /\ stopFlag = FALSE
    /\ mutex = "free"
    /\ wpc \in {"loop", "waiting"}
    /\ cur = None
    /\ cpc = "idle"
    /\ src = "v1"
    /\ cache = NoFile
    /\ hist = HistInit
    /\ scan = ScanIdle
    /\ call = [op |-> "none", arg |-> <<>>, queue |-> queue, processed |-> processed]
NextApi ==
    \/ \E p \in Paths : Enqueue(p) \/ Invalidate(p)
    \/ \E ps \in ArgLists : EnqueueBatch(ps) \/ Prioritize(ps)
ApiSpec == InitApi /\ [][NextApi]_vars

NextLive == Worker \/ ConsumerLive \/ Edit
LiveSpec == Init /\ [][NextLive]_vars /\ WF_vars(Worker) /\ WF_vars(StopWakeAll)

\* The source file of P cannot be decoded (a damaged or truncated picture), and
\* stays so
InitBroken ==
    /\ queue = <<>>
    /\ processed = {}
    /\ stopFlag = FALSE
    /\ mutex = "free"
    /\ wpc = "loop"
    /\ cur = None
    /\ cpc = "idle"
    /\ src = BadFile
    /\ cache = NoFile
    /\ hist = HistInit
    /\ scan = ScanIdle
    /\ call = Off
NextBroken == Worker \/ Consumer
BrokenSpec == InitBroken /\ [][NextBroken]_vars /\ WF_vars(Worker) /\ WF_vars(StopWakeAll)

\* A consumer that never calls prioritize
ConsumerFifo ==
    \/ \E p \in Paths : Enqueue(p) \/ Invalidate(p)
    \/ \E ps \in ArgLists : EnqueueBatch(ps)
    \/ StopFlag
    \/ StopWakeAll
NextFifo == Worker \/ ConsumerFifo
FifoSpec == Init /\ [][NextFifo]_vars

\* The cache directory as an earlier run of the application left it: no file
\* for P, a file that does not decode, or the thumbnail of P's source as it
\* was then; the attempts are recorded
CacheFiles == {NoFile, BadFile} \cup Contents
InitCache ==
    /\ queue = <<>>
    /\ processed = {}
    /\ stopFlag = FALSE
    /\ mutex = "free"
    /\ wpc = "loop"
    /\ cur = None
    /\ cpc = "idle"
    /\ src \in Contents
    /\ cache \in CacheFiles
    /\ hist = HistInit
    /\ scan = ScanIdle
    /\ call = [op |-> "noload", arg |-> <<>>, queue |-> <<>>, processed |-> {}]
CacheSpec == InitCache /\ [][NextFifo]_vars

\* The worker and the consumer with scheduled threads, the source file of P
\* left as it is
QueueSpec == Init /\ [][NextBroken]_vars /\ WF_vars(Worker) /\ WF_vars(StopWakeAll)

\* ------------------------------------------------------------------ properties
\* the worker is blocked on the empty queue and the consumer is in no call
Quiescent == wpc = "waiting" /\ queue = <<>> /\ cpc = "idle"
\* P waits to be processed: queued, or popped and not yet marked
PendingP == InSeq(P, queue) \/ (cur = P /\ wpc \in {"chk_proc", "add"})

\* C1: with no invalidate(P) and no stop(), however often enqueue(P) is called,
\* thumbnail_ready(P) is emitted at most once, and once P has been taken up, the
\* worker has drained the queue and every attempt gave an image, exactly once;
\* this covers the second enqueue falling between the pop of P and its add.
C1_ExactlyOnce ==
    (hist.invals = 0 /\ ~stopFlag) =>
        /\ hist.emits <= 1
        /\ (Quiescent /\ P \in processed /\ hist.emits = hist.finished) => hist.emits = 1

C1_Witness ==
    /\ Quiescent /\ hist.again = "raced" /\ hist.invals = 0 /\ ~stopFlag
    /\ hist.finished = 1 /\ hist.emits = 1

\* C2 (as claimed): an attempt for P that follows a generation which wrote the
\* cache file, then invalidate(P), then enqueue(P), delivers what the generation
\* routine makes of the source file as it is now, not the image of the cache file.
C2_Regenerates ==
    hist.inv = "regen" =>
        \A readable \in BOOLEAN :
            LoadOrGenerate(cache, src, readable) = Generate(src, readable)

C4_Step ==
    P \in processed =>
        /\ Enqueue(P) => queue' = queue
        /\ queue' # queue =>
              \A ps \in ArgLists :
                  EnqueueBatch(ps) =>
                      /\ Count(P, queue') = Count(P, queue)
                      /\ queue' = EnqueueBatchQueue(queue, processed, Filter(ps, Paths \ {P}))
        /\ hist'.attempts = hist.attempts
        /\ hist'.emits > hist.emits => (wpc = "gen" /\ cur = P)

C5_AttemptBound ==
    /\ hist.attempts <= 1 + hist.invals
    /\ hist.attempts <= hist.finished + 1

C5_Witness == hist.attempts = 1 + hist.invals /\ hist.invals >= 1 /\ hist.finished = hist.attempts

\* C6: once stop() has set the flag, stop() returns and run() exits.
C6_StopExits == stopFlag ~> (hist.stopped /\ wpc = "done")

C6_Witness == hist.stopped /\ wpc = "done" /\ queue # <<>> /\ cpc = "idle"

\* C7: after stop() has returned the worker pops no path, and at most one
\* thumbnail_ready is emitted.
C7_NoDequeueAfterStop == [][(hist.stopped => ~WPop) /\ hist'.postStop <= 1]_vars

C7_Witness == hist.stopped /\ hist.postStop = 1 /\ wpc = "done" /\ queue # <<>>

\* the positions of s whose entries are in S, and the n-th of them
Positions(s, S) == {i \in DOMAIN s : s[i] \in S}
Nth(I, n) == CHOOSE i \in I : Cardinality({m \in I : m <= i}) = n
\* s' is s restricted to the positions I, in order
IsSubSeqAt(t, s, I) ==
    /\ Len(t) = Cardinality(I)
    /\ \A n \in 1..Len(t) : t[n] = s[Nth(I, n)]

\* C8 (as claimed): after prioritize(paths) the queue is its entries named in
\* paths, in the order they had in the queue, then the others in their order.
C8_QueueOrder ==
    call.op = "prioritize" => queue = PrioritizeStable(call.queue, call.arg)

\* C8 (amended): after prioritize(paths) the queue is the entries of paths that
\* were queued, in the order and as often as they occur in paths, then the
\* other queued paths in the order they had.
C8_ArgumentOrder ==
    call.op = "prioritize" =>
        LET front == Positions(call.arg, Range(call.queue))
            rest == Positions(call.queue, Paths \ Range(call.arg))
            k == Cardinality(front)
        IN /\ Len(queue) = k + Cardinality(rest)
           /\ IsSubSeqAt(SubSeq(queue, 1, k), call.arg, front)
           /\ IsSubSeqAt(SubSeq(queue, k + 1, Len(queue)), call.queue, rest)

\* prioritize has put the two queued paths in the order of its argument
C8_Witness ==
    /\ call.op = "prioritize" /\ call.arg = <<"b.mp4", P>>
    /\ call.queue = <<P, "b.mp4">> /\ queue = <<"b.mp4", P>>

\* C9 (as claimed): prioritize(paths) leaves every path as often in the queue
\* as it was, and leaves the processed set alone.
C9_SamePaths ==
    call.op = "prioritize" =>
        /\ \A p \in Paths : Count(p, queue) = Count(p, call.queue)
        /\ processed = call.processed


(***************************************************************************)
(* ScannerWorker (src/src/scanner.py) over a fixed file tree.               *)
(*                                                                         *)
(* A directory is the sequence of its names from the top, a file name is a  *)
(* record of stem, suffix and number, a file path is a directory and a file *)
(* name.  The tree:                                                         *)
(*   /r        a.jpg  n.txt  l.jpg -> /r/s/b.MP4   m.jpg -> /r/n.txt        *)
(*             k.jpg -> /r/hid/h.jpg      j.png -> /r/a.jpg                 *)
(*   /r/s      b.MP4  c.png (resolve fails)  o.jpg -> /r/s/o.jpg (a link   *)
(*             to itself)  d.gif (stat fails)                               *)
(*   /r/.git   g.png          /r/venv  v.jpg          /r/hid  h.jpg         *)
(*   /lnk      a link to the directory /r/s                                 *)
(*   /big      f1.jpg .. one file more than a batch holds                   *)
(*   /nx       does not exist                                               *)
(***************************************************************************)

\* scanner.py line 30
BATCH_SIZE == 40
\* the longest list of roots a scan is started with
MaxRoots == 2

\* config.py lines 16-17
IMAGE_EXTENSIONS == {".jpg", ".jpeg", ".png", ".bmp", ".webp", ".gif"}
VIDEO_EXTENSIONS == {".mp4", ".mkv", ".mov", ".avi", ".webm"}
\* scanner.py lines 19-28
SKIP_DIRS ==
    {"$RECYCLE.BIN", "System Volume Information", "AppData", ".git",
     "__pycache__", "node_modules", ".venv", "venv"}

F(stem, suffix, n) == [stem |-> stem, suffix |-> suffix, n |-> n]
FilePath(d, f) == [dir |-> d, file |-> f]
\* the outcome of a resolve() that raises OSError
OSError == FilePath(<<>>, F("OSError", "", 0))
\* the outcome of from_path() that returns None
NoItem == [path |-> OSError, media_type |-> "None"]
\* the outcome of a resolve() that raises RuntimeError
RuntimeError == FilePath(<<>>, F("RuntimeError", "", 0))
\* hidden_dir = None
NoHidden == <<>>

\* /nx does not exist; /r/n.txt exists and is a file
RootChoices == {<<"r">>, <<"r", "s">>, <<"lnk">>, <<"big">>, <<"nx">>, <<"r", "n.txt">>}
HiddenChoices == {NoHidden, <<"r", "hid">>}
\* scan_folders: an empty list is replaced by the configured folders (line 46)
RootLists == UNION {[1..n -> RootChoices] : n \in 1..MaxRoots}

\* ---- the file system
AllDirs ==
    {<<"r">>, <<"r", "s">>, <<"r", ".git">>, <<"r", "venv">>, <<"r", "hid">>,
     <<"lnk">>, <<"big">>}
\* Path.exists() and Path.is_dir()
IsDir(d) == d \in AllDirs
\* the directory a directory path leads to
RealDir(d) == IF d = <<"lnk">> THEN <<"r", "s">> ELSE d
\* the names os.walk lists in a directory, in the order of the file system
SubDirs(d) == IF d = <<"r">> THEN <<"s", ".git", "venv", "hid">> ELSE <<>>
FilesOf(d) ==
    CASE d = <<"r">> ->
             <<F("a", ".jpg", 0), F("n", ".txt", 0), F("l", ".jpg", 0), F("m", ".jpg", 0),
               F("k", ".jpg", 0), F("j", ".png", 0)>>
      [] RealDir(d) = <<"r", "s">> ->
             <<F("b", ".MP4", 0), F("c", ".png", 0), F("o", ".jpg", 0), F("d", ".gif", 0)>>
      [] d = <<"r", ".git">> -> <<F("g", ".png", 0)>>
      [] d = <<"r", "venv">> -> <<F("v", ".jpg", 0)>>
      [] d = <<"r", "hid">> -> <<F("h", ".jpg", 0)>>
      [] d = <<"big">> -> [i \in 1..(BATCH_SIZE + 1) |-> F("f", ".jpg", i)]
      [] OTHER -> <<>>
\* Path.resolve(): the canonical path, links followed
Resolve(fp) ==
    CASE fp.file.stem = "c" -> OSError
      [] fp.file.stem = "l" -> FilePath(<<"r", "s">>, F("b", ".MP4", 0))
      [] fp.file.stem = "m" -> FilePath(<<"r">>, F("n", ".txt", 0))
      [] fp.file.stem = "k" -> FilePath(<<"r", "hid">>, F("h", ".jpg", 0))
      [] fp.file.stem = "j" -> FilePath(<<"r">>, F("a", ".jpg", 0))
      [] OTHER -> FilePath(RealDir(fp.dir), fp.file)
\* the directory entries that are links to files
IsLink(fp) == fp.file.stem \in {"l", "m", "k", "j", "o"}
\* a link that leads back to itself
IsLoop(fp) == fp.file.stem = "o"
\* what fpath.resolve() can give: on a loop of links pathlib raises
\* RuntimeError up to Python 3.12 and returns the path from Python 3.13 on;
\* the program names no version
Resolutions(fp) == IF IsLoop(fp) THEN {RuntimeError, Resolve(fp)} ELSE {Resolve(fp)}
\* Path.stat() raises OSError
StatFails(fp) == fp.file.stem \in {"d", "o"}
\* str.lower() of a suffix
Lower(suffix) == IF suffix = ".MP4" THEN ".mp4" ELSE suffix
\* str.startswith(".") of a directory name
StartsWithDot(name) == name \in {".git", ".venv"}

Reverse(l) == [i \in 1..Len(l) |-> l[Len(l) + 1 - i]]
IsPrefix(a, b) == Len(a) <= Len(b) /\ SubSeq(b, 1, Len(a)) = a
RECURSIVE SelectNames(_, _)
SelectNames(names, keep) ==
    IF names = <<>> THEN <<>>
    ELSE (IF Head(names) \in keep THEN <<Head(names)>> ELSE <<>>)
             \o SelectNames(Tail(names), keep)

\* models.py lines 24-51: MediaItem.from_path(filepath)
FromPath(fp) ==
    IF StatFails(fp) THEN NoItem
    ELSE IF Lower(fp.file.suffix) \in IMAGE_EXTENSIONS
             THEN [path |-> fp, media_type |-> "photo"]
    ELSE IF Lower(fp.file.suffix) \in VIDEO_EXTENSIONS
             THEN [path |-> fp, media_type |-> "video"]
    ELSE NoItem

\* lines 75-81: root_path.relative_to(self.hidden_dir) raises no ValueError
UnderHidden(hidden, d) == hidden # NoHidden /\ IsPrefix(hidden, d)
\* lines 84-87: the subdirectories os.walk goes on to
Pruned(name) == name \in SKIP_DIRS \/ StartsWithDot(name)
KeptDirs(names) == SelectNames(names, {n \in Range(names) : ~Pruned(n)})
\* lines 94-96
ExtMatches(f) == Lower(f.suffix) \in IMAGE_EXTENSIONS \cup VIDEO_EXTENSIONS
\* line 103, the test that skips a path seen before (and the test without it)
VisitedSkipNever(resolved, visited) == FALSE
VisitedSkip(resolved, visited) == resolved \in visited
\* line 107: the path the item is built from (and the path as walked)
ItemSourceWalked(fpath, resolved) == fpath
ItemSource(fpath, resolved) == resolved
\* lines 108-112: the file counts when an item was built
Counts(item) == item # NoItem
\* line 114 (and the test one entry late)
BatchFullLate(batch) == Len(batch) > BATCH_SIZE
BatchFull(batch) == Len(batch) >= BATCH_SIZE
\* line 90: if self._stop
FileStopSeen(stop) == stop
\* lines 63-64
RootSkipped(folder) == ~IsDir(folder)
\* no earlier run
NoRun == [run |-> FALSE, rev |-> FALSE, count |-> 0, paths |-> {}]

\* ScannerWorker.__init__ (lines 40-48)
ScanCreated(roots, hidden, rev) ==
    [ pc       |-> "created",
      stop     |-> FALSE,       \* self._stop
      roots    |-> roots,       \* self.scan_folders
      hidden   |-> hidden,      \* self.hidden_dir
      rev      |-> rev,         \* the file system lists entries in reverse
      ri       |-> 1,           \* the next root of the for loop of line 59
      stack    |-> <<>>,        \* directories os.walk has yet to yield
      dirs     |-> <<>>,        \* dirs of the directory yielded last
      files    |-> <<>>,        \* files the for loop of line 89 has yet to take
      root     |-> <<>>,        \* root_path
      fname    |-> F("", "", 0),
      batch    |-> <<>>,
      count    |-> 0,
      visited  |-> {},
      emitted  |-> <<>>,        \* the lists items_found carried, in order
      progress |-> <<>>,        \* the roots scan_progress was emitted for
      finished |-> <<>>,        \* the counts scan_finished carried
      delivered |-> 0,          \* the emitted lists the consumer's slot has taken
      taken    |-> 0,           \* ... and the paths of the list in hand its loop has
                                \* gone through
      found    |-> <<>>,        \* the items in the order of their append, each
                                \* with the place of its root in the list (history)
      stopPc   |-> "",          \* where the run was when stop() was called (history)
      stopCount |-> 0,          \* count when stop() was called (history)
      prev     |-> NoRun ]      \* what the run before this one gave (history)

InitScan ==
    /\ InitThumb
    /\ call = Off
    /\ scan \in {ScanCreated(r, h, v) :
                     r \in RootLists, h \in HiddenChoices, v \in BOOLEAN}

Listed(l) == IF scan.rev THEN Reverse(l) ELSE l

\* lines 54-57
ScanRun ==
    /\ scan.pc = "created"
    /\ scan' = [scan EXCEPT !.pc = "root_loop"]
    /\ UNCHANGED <<thumbVars, call>>

\* lines 59-61: the next root, or the end of the loop
ScanNextRoot ==
    /\ scan.pc = "root_loop"
    /\ scan' =
         IF scan.ri > Len(scan.roots) \/ scan.stop
             THEN [scan EXCEPT !.pc = "flush"]
         ELSE [scan EXCEPT !.ri = @ + 1, !.pc = "root"]
    /\ UNCHANGED <<thumbVars, call>>

\* lines 62-68: the root is skipped, or announced and handed to os.walk
ScanEnterRoot ==
    /\ scan.pc = "root"
    /\ LET folder == scan.roots[scan.ri - 1]
       IN scan' =
            IF RootSkipped(folder)
                THEN [scan EXCEPT !.pc = "root_loop"]
            ELSE [scan EXCEPT !.progress = Append(@, folder),
                              !.stack = <<folder>>,
                              !.dirs = <<>>,
                              !.pc = "walk"]
    /\ UNCHANGED <<thumbVars, call>>

\* lines 68-87: os.walk yields the next directory, which is skipped, or pruned
\* and its files taken up
ScanWalk ==
    /\ scan.pc = "walk"
    /\ LET pending == [i \in 1..Len(scan.dirs) |-> Append(scan.root, scan.dirs[i])]
                          \o scan.stack
       IN scan' =
            IF pending = <<>> THEN [scan EXCEPT !.pc = "root_loop", !.dirs = <<>>]
            ELSE IF scan.stop
                THEN [scan EXCEPT !.pc = "root_loop", !.dirs = <<>>, !.stack = <<>>]
            ELSE IF UnderHidden(scan.hidden, Head(pending))
                THEN [scan EXCEPT !.root = Head(pending), !.stack = Tail(pending),
                                  !.dirs = <<>>]
            ELSE [scan EXCEPT !.root = Head(pending), !.stack = Tail(pending),
                              !.dirs = KeptDirs(Listed(SubDirs(Head(pending)))),
                              !.files = Listed(FilesOf(Head(pending))),
                              !.pc = "files"]
    /\ UNCHANGED <<thumbVars, call>>

\* lines 89-91: the next file name, or the end of the loop
ScanFileTest ==
    /\ scan.pc = "files"
    /\ scan' =
         IF scan.files = <<>> \/ FileStopSeen(scan.stop)
             THEN [scan EXCEPT !.pc = "walk", !.files = <<>>]
         ELSE [scan EXCEPT !.fname = Head(scan.files), !.files = Tail(scan.files),
                           !.pc = "file"]
    /\ UNCHANGED <<thumbVars, call>>

\* line 111: the item as it is appended, under the root of line 59 in hand
Found(item) == [item |-> item, root |-> scan.ri - 1]

\* lines 93-116: one file
ScanFileBody ==
    /\ scan.pc = "file"
    /\ \E resolved \in Resolutions(FilePath(scan.root, scan.fname)) :
       LET fpath == FilePath(scan.root, scan.fname)
           item == FromPath(ItemSource(fpath, resolved))
           batch == Append(scan.batch, item)
       IN scan' =
            IF ~ExtMatches(scan.fname)
                THEN [scan EXCEPT !.pc = "files"]
            \* lines 99-102 catch OSError; any other exception ends run()
            ELSE IF resolved = RuntimeError
                THEN [scan EXCEPT !.pc = "aborted"]
            ELSE IF resolved = OSError \/ VisitedSkip(resolved, scan.visited)
                THEN [scan EXCEPT !.pc = "files"]
            ELSE IF item = NoItem
                THEN [scan EXCEPT !.pc = "files", !.visited = @ \cup {resolved},
                                  !.count = IF Counts(item) THEN @ + 1 ELSE @]
            ELSE IF BatchFull(batch)
                THEN [scan EXCEPT !.pc = "files", !.visited = @ \cup {resolved},
                                  !.count = @ + 1, !.batch = <<>>,
                                  !.emitted = Append(@, batch),
                                  !.found = Append(@, Found(item))]
            ELSE [scan EXCEPT !.pc = "files", !.visited = @ \cup {resolved},
                              !.count = @ + 1, !.batch = batch,
                              !.found = Append(@, Found(item))]
    /\ UNCHANGED <<thumbVars, call>>

\* lines 118-122
ScanFinish ==
    /\ scan.pc = "flush"
    /\ scan' = [scan EXCEPT !.pc = "done",
                            !.batch = <<>>,
                            !.emitted = IF scan.batch # <<>> THEN Append(@, scan.batch) ELSE @,
                            !.finished = Append(@, scan.count)]
    /\ UNCHANGED <<thumbVars, call>>

\* lines 50-51: stop(), from the consumer's thread
ScanStop ==
    /\ scan.pc # "idle"
    /\ ~scan.stop
    /\ scan' = [scan EXCEPT !.stop = TRUE, !.stopPc = scan.pc, !.stopCount = scan.count]
    /\ UNCHANGED <<thumbVars, call>>

Scanner ==
    \/ ScanRun
    \/ ScanNextRoot
    \/ ScanEnterRoot
    \/ ScanWalk
    \/ ScanFileTest
    \/ ScanFileBody
    \/ ScanFinish

NextScan == Scanner \/ ScanStop
ScanSpec == InitScan /\ [][NextScan]_vars

\* ---- what a scan has emitted
RECURSIVE Flatten(_)
Flatten(ll) == IF ll = <<>> THEN <<>> ELSE Head(ll) \o Flatten(Tail(ll))
EmittedItems == Flatten(scan.emitted)
EmittedCount(c) ==
    Cardinality({i \in DOMAIN EmittedItems : EmittedItems[i].path = c})

\* ---- the files under a root, said without the walk: the directories below
\* the root with no pruned name on the way and not under the hidden directory,
\* and their files with a matching suffix
WalkedDirs(root, hidden) ==
    {d \in AllDirs :
        /\ IsDir(root) /\ IsPrefix(root, d)
        /\ \A i \in (Len(root) + 1)..Len(d) : ~Pruned(d[i])
        /\ \A k \in Len(root)..Len(d) : SubSeq(d, 1, k) \in AllDirs
        /\ ~UnderHidden(hidden, d)}
FilesUnder(root, hidden) ==
    UNION {{FilePath(d, f) : f \in Range(FilesOf(d))} : d \in WalkedDirs(root, hidden)}
\* the ways the scan comes to the file of canonical path c: root and path
Ways(c) ==
    UNION {{<<i, fp>> : fp \in {x \in FilesUnder(scan.roots[i], scan.hidden) :
                                    ExtMatches(x.file) /\ Resolve(x) = c}} :
              i \in DOMAIN scan.roots}
Canonical ==
    {Resolve(fp) : fp \in UNION {FilesUnder(r, h) : r \in RootChoices, h \in HiddenChoices}}
        \ {OSError}

WalkedFiles ==
    {fp \in UNION {FilesUnder(scan.roots[i], scan.hidden) : i \in DOMAIN scan.roots} :
        ~IsLink(fp)}

\* the suffixes of the tree that are, in lower case, photo or video suffixes
MediaSuffixes == {".jpg", ".png", ".gif", ".MP4"}

\* C11 (as claimed): when an uncancelled run has ended, every file (a link is
\* no file of its own) in a directory the walk comes to whose lower-cased suffix
\* is a photo or video suffix, and whose resolve() and stat() succeed, has been
\* emitted exactly once under its canonical path, and every file with another
\* suffix not at all, whether or not a batch was flushed on the way
C11_OnePerMediaFile ==
    (scan.pc \in {"done", "aborted"} /\ ~scan.stop) =>
        \A fp \in WalkedFiles :
            IF fp.file.suffix \in MediaSuffixes
            THEN (Resolve(fp) # OSError /\ ~StatFails(Resolve(fp)))
                     => EmittedCount(Resolve(fp)) = 1
            ELSE EmittedCount(Resolve(fp)) = 0

\* C12 (as claimed): no emitted MediaItem has a path with a directory on the
\* way whose name is in _SKIP_DIRS or starts with ".", and none has a path
\* under hidden_dir
C12_NoExcluded ==
    scan.pc # "idle" =>
        \A i \in DOMAIN EmittedItems :
            LET d == EmittedItems[i].path.dir
            IN /\ \A k \in DOMAIN d : ~Pruned(d[k])
               /\ ~UnderHidden(scan.hidden, d)

\* C13: every items_found batch has between 1 and BATCH_SIZE entries, and
\* every batch other than the last one of a run has exactly BATCH_SIZE.  While
\* the run has not ended, every batch emitted so far is a full one.
C13_BatchSizes ==
    scan.pc # "idle" =>
        \A i \in DOMAIN scan.emitted :
            /\ Len(scan.emitted[i]) >= 1
            /\ Len(scan.emitted[i]) <= BATCH_SIZE
            /\ (i < Len(scan.emitted) \/ scan.pc # "done")
                   => Len(scan.emitted[i]) = BATCH_SIZE

\* a run that emitted one full batch and then a last, shorter one
C13_Witness ==
    /\ scan.pc = "done"
    /\ Len(scan.emitted) = 2
    /\ Len(scan.emitted[1]) = BATCH_SIZE
    /\ Len(scan.emitted[2]) < BATCH_SIZE

\* the scanner thread is scheduled: a run that can take a step takes it
ScanFairSpec == ScanSpec /\ WF_vars(Scanner)

C14_State ==
    /\ Len(scan.finished) <= 1
    /\ (scan.pc = "done") = (Len(scan.finished) = 1)
    /\ scan.pc = "done" => /\ scan.finished[1] = Len(EmittedItems)
                           /\ scan.batch = <<>>

C14_Step ==
    scan.finished # <<>> => /\ scan'.emitted = scan.emitted
                            /\ scan'.finished = scan.finished

\* C14 (as claimed): a run emits scan_finished exactly once, after every items_found of
\* the run, and the count it carries is the number of items emitted in all
\* the batches, whether the run completed or was cancelled.
C14_FinishedOnce ==
    /\ [](scan.pc # "idle" => C14_State)
    /\ [][C14_Step]_vars
    /\ <>[](scan.pc = "done")


C15_State ==
    scan.stop =>
        /\ scan.count <= scan.stopCount + 1
        /\ scan.stopPc # "file" => scan.count = scan.stopCount
        /\ (scan.stopPc = "created" /\ scan.pc = "done")
               => scan.emitted = <<>> /\ scan.finished = <<0>>

C15_Step ==
    scan.stop =>
        /\ scan'.pc = "file" => scan.pc = "file"
        /\ scan'.pc = "root" => scan.pc = "root"
        /\ Len(scan'.progress) > Len(scan.progress) => scan.pc = "root"

\* C15 (as claimed): once stop() has set the flag the run builds at most one more item
\* (that of the file it was working on), takes up the files of no further
\* directory and no further root, and then flushes what the batch holds and
\* emits scan_finished; stopped before it starts, the run emits no entries
\* and a count of 0.
C15_StopEndsRun ==
    /\ [](scan.pc # "idle" => C15_State)
    /\ [][C15_Step]_vars
    /\ <>[](scan.pc = "done" /\ scan.batch = <<>>
                             /\ scan.finished = <<Len(EmittedItems)>>)

\* the roots that are directories, in the order of the list
DirRoots == Filter(scan.roots, AllDirs)

\* the step taken on a root that is no directory
C18_Step ==
    (scan.pc = "root" /\ scan.roots[scan.ri - 1] \notin AllDirs) =>
        /\ scan'.progress = scan.progress
        /\ scan'.emitted = scan.emitted
        /\ scan'.batch = scan.batch
        /\ scan'.count = scan.count
        /\ scan'.pc \in {"root", "root_loop"}

\* C18 (as claimed): a root that does not exist or is no directory gives no entries and no
\* progress message, and the scan goes on: an uncancelled run announces the
\* directories among its roots, each in its turn, and ends with scan_finished.
C18_BadRootSkipped ==
    /\ [][C18_Step]_vars
    /\ [](scan.pc # "idle" =>
            /\ \A i \in DOMAIN scan.progress : scan.progress[i] \in AllDirs
            /\ (scan.pc = "done" /\ ~scan.stop) =>
                   /\ scan.progress = DirRoots
                   /\ Len(scan.finished) = 1)
    /\ <>[](scan.pc = "done")

\* ---- a second run over the same tree
\* main_window._start_scan: a new ScannerWorker with the same folders and
\* hidden directory is created and started (each start of the application);
\* the file system may list entries in the other order this time
ScanAgain ==
    /\ scan.pc = "done"
    /\ ~scan.prev.run
    /\ \E v \in BOOLEAN :
         scan' = [ScanCreated(scan.roots, scan.hidden, v) EXCEPT
                     !.prev = [run |-> TRUE, rev |-> scan.rev,
                               count |-> scan.finished[1],
                               paths |-> {EmittedItems[i].path : i \in DOMAIN EmittedItems}]]
    /\ UNCHANGED <<thumbVars, call>>

\* runs that are not cancelled
NextRescan == Scanner \/ ScanAgain
RescanSpec == InitScan /\ [][NextRescan]_vars

Q == "b.mp4"

C16_State ==
    /\ hist.emits = 0
    /\ cache = NoFile
    /\ (hist.finished >= 1 /\ hist.invals = 0) => P \in processed

C16_Step ==
    /\ (P \in processed /\ P \notin processed') => hist'.invals = hist.invals + 1
    /\ (P \in processed /\ hist.finished >= 1 /\ ~InSeq(P, queue)) => ~InSeq(P, queue')
    /\ (wpc = "gen" /\ cur = P /\ wpc' # "gen") =>
           /\ wpc' = "loop" /\ queue' = queue /\ processed' = processed
           /\ hist'.finished = hist.finished + 1

\* C16: when P cannot be loaded or generated the worker emits no
\* thumbnail_ready for P and writes no cache file; P stays processed, so that
\* a later enqueue(P) adds nothing until invalidate(P) takes P out; and the
\* worker goes on: it is back at the head of its loop with the queue as it
\* was, and takes up the next queued path unless stop() comes first.
C16_FailureKept ==
    /\ []C16_State
    /\ [][C16_Step]_vars
    /\ (hist.finished >= 1 /\ cur = None /\ queue # <<>>) ~> (cur # None \/ stopFlag)

\* the attempt for P has failed, an enqueue(P) made since added nothing, and
\* the worker is at work on the other path
C16_Witness ==
    /\ hist.finished = 1 /\ hist.emits = 0 /\ hist.invals = 0
    /\ P \in processed /\ ~InSeq(P, queue)
    /\ hist.again = "late"
    /\ cur = Q /\ wpc = "gen"
    /\ ~stopFlag

RECURSIVE EnqueueEach(_, _, _)
\* the queue after enqueue(p) has been called for each p of ps, in order
EnqueueEach(q, proc, ps) ==
    IF ps = <<>> THEN q
    ELSE EnqueueEach(EnqueueQueue(q, proc, Head(ps)), proc, Tail(ps))

\* C17: from any queue and processed set, and for any list (with repeats,
\* with paths queued or processed already), enqueue_batch(paths) leaves the
\* queue and the processed set as the calls enqueue(p), for each p of paths
\* in order and with no worker step between them, would leave them.
C17_BatchAsEach ==
    call.op = "enqueue_batch" =>
        /\ queue = EnqueueEach(call.queue, call.processed, call.arg)
        /\ processed = call.processed

\* a list that names a path twice, after a path that was processed, on a
\* queue that held neither: the path is queued once
C17_Witness ==
    /\ call.op = "enqueue_batch"
    /\ call.arg = <<P, Q>> \/ call.arg = <<Q, Q>>
    /\ call.processed = {P}
    /\ call.queue = <<>>
    /\ queue = <<Q>>

\* C20 (as claimed): whenever the worker loop reads or writes the queue (the
\* test of line 82, the pop of line 87) or the processed set (the membership
\* test of line 90, the add of line 92) it holds the mutex; the queue calls of
\* the consumer run from lock() to unlock() in one step each.
C20_UnderMutex ==
    (\/ wpc \in {"test", "pop", "add"}
     \/ (wpc = "chk_proc" /\ cur # None))
        => mutex = "worker"

\* the entries in front of the first P of the queue
Ahead(q) == IF InSeq(P, q) THEN FirstP(q) - 1 ELSE 0
\* the worker has no path in hand
Idle == cur = None

\* C21 (as claimed): without stop(), a path in the queue is in the end dequeued
\* and added to the processed set.
C21_Dequeued == InSeq(P, queue) ~> (P \in processed \/ stopFlag)

C21_Step ==
    \* only prioritize puts entries in front of a queued P (a pop of P leaves
    \* the next P, if prioritize had queued P twice)
    /\ (InSeq(P, queue) /\ InSeq(P, queue') /\ Ahead(queue') > Ahead(queue))
           => \/ wpc = "pop" /\ cur' = P
              \/ \E ps \in ArgLists : Prioritize(ps)
    \* P leaves the queue only into the worker's hand
    /\ (InSeq(P, queue) /\ ~InSeq(P, queue')) => (cur' = P /\ wpc = "pop")
    \* the worker takes the head
    /\ (wpc = "pop" /\ wpc' # "pop") => (cur' = Head(queue) /\ queue' = Tail(queue))
    \* with an empty queue and nothing in hand the worker neither pops nor
    \* processes; blocked in wait() it stays so until it is woken
    /\ (queue = <<>> /\ Idle) =>
           /\ cur' = None /\ processed' \subseteq processed
           /\ hist'.attempts = hist.attempts /\ cache' = cache
    /\ wpc = "waiting" => wpc' \in {"waiting", "woken"}

\* C21 (amended): without stop(), the worker takes the head of a non-empty
\* queue, a path it has taken is processed, and only prioritize can put
\* entries in front of a queued path; so a queued path is dequeued and
\* processed unless prioritize keeps putting entries in front of it.  No
\* wake-up is lost: the worker is never blocked in wait() with a path queued.
\* With the queue empty and no path in hand the worker does nothing but get
\* to wait() and block there.
C21_WorkerServes ==
    /\ [][C21_Step]_vars
    /\ [](wpc \in {"wait", "waiting"} => queue = <<>>)
    /\ (queue # <<>> /\ Idle) ~> (~Idle \/ stopFlag)
    /\ (cur = P /\ wpc = "chk_proc") ~> (P \in processed)
    /\ (queue = <<>> /\ Idle) ~> (wpc = "waiting" \/ queue # <<>> \/ stopFlag)

\* enqueue(P) came while the worker was blocked in wait() and has woken it
C21_Witness ==
    /\ wpc = "woken" /\ queue = <<P>> /\ Idle
    /\ hist.attempts = 0 /\ ~stopFlag

\* the place of x in q
Place(x, q) == CHOOSE i \in DOMAIN q : q[i] = x

C22_Step ==
    \* the queue changes at its two ends only: the worker takes the head, an
    \* enqueue adds behind the last entry
    /\ queue' # queue =>
           \/ wpc = "pop" /\ cur' = Head(queue) /\ queue' = Tail(queue)
           \/ Len(queue') > Len(queue) /\ SubSeq(queue', 1, Len(queue)) = queue
    \* B is not taken while A, appended before it, is queued
    /\ \A A, B \in Paths :
           (InSeq(A, queue) /\ InSeq(B, queue) /\ Place(A, queue) < Place(B, queue))
               => ~(cur' = B /\ cur # B)

\* C22: with no prioritize call, the worker dequeues the paths in the order
\* in which they were appended: a path appended after another is taken up
\* after it.
C22_Fifo == [][C22_Step]_vars

\* P and Q were queued in this order; the worker has taken P and left Q
C22_Witness ==
    /\ cur = P /\ wpc = "chk_proc" /\ queue = <<Q>>
    /\ processed = {} /\ hist.again = "no"

\* C23: when the cache file of P decodes, the attempt emits the image of
\* that file, does not call the generation routine and leaves the file as it
\* is; when the file is there but does not decode, the attempt generates as
\* it does with no cache file: it emits what generation gives (nothing when
\* generation fails) and writes that image to the cache.
C23_CacheHit ==
    call.op = "load" =>
        LET c == call.arg[2]
            how == call.arg[3]
            emitted == call.arg[4]
        IN /\ c \in Contents => (emitted = c /\ how = "cached" /\ cache = c)
           /\ c \in {NoFile, BadFile} =>
                  /\ how = "generated"
                  /\ emitted \in {src, None}
                  /\ cache = IF emitted = None THEN c ELSE src

\* the cache file held the thumbnail of the source as it was before an edit;
\* the attempt emitted it
C23_Witness ==
    /\ call.op = "load" /\ call.arg = <<P, "v1", "cached", "v1">>
    /\ src = "v2" /\ cache = "v1"

\* the file in hand is one whose resolve() fails
ResolveFails == scan.fname.stem = "c" \/ IsLoop(FilePath(scan.root, scan.fname))

C24_Step ==
    (scan.pc = "file" /\ ResolveFails /\ scan'.pc # "file") =>
        /\ scan'.pc = "files"
        /\ scan'.count = scan.count
        /\ scan'.batch = scan.batch
        /\ scan'.emitted = scan.emitted

\* C24 (as claimed): a matching file whose resolve() fails is skipped, neither
\* emitted nor counted, and the walk goes on with the next file; no other
\* failure on a file keeps a matching file from being emitted; and the run
\* ends with scan_finished.
C24_OnlyResolveSkips ==
    /\ [][C24_Step]_vars
    /\ []((scan.pc = "done" /\ ~scan.stop) =>
            \A fp \in WalkedFiles :
                (fp.file.suffix \in MediaSuffixes /\ Resolve(fp) # OSError)
                    => EmittedCount(Resolve(fp)) = 1)
    /\ <>[](scan.pc = "done")

\* the items of the run in the order of their discovery
Discovered == [i \in DOMAIN scan.found |-> scan.found[i].item]

\* C25 (as claimed): the roots are taken in the order of the list, and when the
\* run has ended the emitted batches, one after the other, are the items in the
\* order of their discovery: none moved, dropped or emitted twice
C25_DiscoveryOrder ==
    scan.pc # "idle" =>
        /\ IsPrefix(scan.progress, DirRoots)
        /\ \A i, j \in DOMAIN scan.found :
               i <= j => scan.found[i].root <= scan.found[j].root
        /\ IsPrefix(EmittedItems, Discovered)
        /\ scan.pc \in {"done", "aborted"} => EmittedItems = Discovered

\* ------------------------------------------------------------------ the size of a preview
MaxSide == 12
MaxThumb == 6
\* config.THUMB_SIZE, the default of thumb_size
THUMB_SIZE == 180

\* widths and heights of a picture or a first video frame
Sides == 1..MaxSide \cup {3000, 4000}
\* thumb_size
ThumbSizes == 1..MaxThumb \cup {THUMB_SIZE}

Max(a, b) == IF a >= b THEN a ELSE b
Dist(a, b) == IF a >= b THEN a - b ELSE b - a
\* math.floor and math.ceil of a / b
Floor(a, b) == a \div b
Ceil(a, b) == (a + b - 1) \div b

\* PIL round_aspect: max(..., 1) (and a rounding that lets a side fall to 0)
AtLeastZero(n) == n
AtLeastOne(n) == Max(n, 1)

\* PIL round_aspect, min(floor, ceil, key): of two candidates the one whose
\* distance is smaller; the distances are floating-point numbers in the
\* code, so that on an exact tie the rounding of the build decides
Nearer(n1, d1, n2, d2) ==
    IF d1 < d2 THEN {n1} ELSE IF d2 < d1 THEN {n2} ELSE {n1, n2}

\* PIL Image.thumbnail((T, T)), preserve_aspect_ratio: the size is kept when
\* the picture fits; otherwise the longer side becomes T and the other one is
\* round_aspect: of floor and ceil of the exact value the one whose ratio is
\* nearer to w / h (floor when it is 0), and at least 1
ImageThumb(w, h, T) ==
    IF T >= w /\ T >= h THEN {<<w, h>>}
    ELSE IF w <= h
        THEN LET n1 == Floor(T * w, h)
                 n2 == Ceil(T * w, h)
             IN {<<AtLeastOne(x), T>> :
                    x \in Nearer(n1, Dist(w * T, n1 * h), n2, Dist(w * T, n2 * h))}
    ELSE LET n1 == Floor(T * h, w)
             n2 == Ceil(T * h, w)
         IN {<<T, AtLeastOne(y)>> :
                y \in IF n1 = 0 THEN {n1}
                      ELSE Nearer(n1, Dist(w * n1, T * h) * n2,
                                  n2, Dist(w * n2, T * h) * n1)}

\* _video_thumb, lines 157-166: scale = thumb_size / max(h, w), each side
\* int(side * scale); cv2.resize raises for a side of 0 and line 165 returns None
VideoThumb(w, h, T) ==
    LET nw == Floor(w * T, Max(h, w))
        nh == Floor(h * T, Max(h, w))
    IN IF nw = 0 \/ nh = 0 THEN {None} ELSE {<<nw, nh>>}

\* _load_or_generate, lines 114-118: the previews the call can give
Thumb(video, w, h, T) == IF video THEN VideoThumb(w, h, T) ELSE ImageThumb(w, h, T)

\* a worker made with thumb_size T and a readable file of w x h
InitPreview ==
    /\ queue = <<>>
    /\ processed = {}
    /\ stopFlag = FALSE
    /\ mutex = "free"
    /\ wpc = "loop"
    /\ cur = None
    /\ cpc = "idle"
    /\ src = "v1"
    /\ cache = NoFile
    /\ hist = HistInit
    /\ scan = ScanIdle
    /\ \E video \in BOOLEAN, w \in Sides, h \in Sides, T \in ThumbSizes :
         call = [op |-> "size", arg |-> <<video, w, h, T>>, queue |-> <<>>,
                 processed |-> {}]

\* the preview is generated
Preview ==
    /\ call.op = "size"
    /\ \E img \in Thumb(call.arg[1], call.arg[2], call.arg[3], call.arg[4]) :
         call' = [call EXCEPT !.op = "sized", !.arg = Append(@, img)]
    /\ UNCHANGED <<thumbVars, scan>>

PreviewSpec == InitPreview /\ [][Preview]_vars

\* C26: a preview generated from a picture or a first video frame of w x h
\* with thumb_size T is at least 1 and at most T wide and high, and has the
\* ratio of the source up to the rounding of a side to a whole number: it has
\* the size of the source, or each side is the source's side times
\* T / max(w, h), rounded down or up, or is 1; 4000 x 3000 with T = 180
\* gives 180 x 135
C26_PreviewSize ==
    call.op = "sized" =>
        LET w == call.arg[2]
            h == call.arg[3]
            T == call.arg[4]
            m == IF w >= h THEN w ELSE h
            img == call.arg[5]
        IN /\ img # None =>
                /\ img[1] \in 1..T
                /\ img[2] \in 1..T
                /\ \/ img = <<w, h>>
                   \/ /\ img[1] = 1 \/ Dist(img[1] * m, w * T) < m
                      /\ img[2] = 1 \/ Dist(img[2] * m, h * T) < m
           /\ (w = 4000 /\ h = 3000 /\ T = THUMB_SIZE) => img = <<180, 135>>

\* a picture of 4000 x 3000 scaled to 180 x 135
C26_Witness ==
    /\ call.op = "sized"
    /\ call.arg = <<FALSE, 4000, 3000, THUMB_SIZE, <<180, 135>>>>

\* what invalidate leaves alone besides the queue, the other paths of the
\* processed set and the cache file
C27_Rest == <<stopFlag, mutex, wpc, cur, cpc, src>>

\* a step of invalidate: the only step that takes a path out of the processed
\* set, and, for P, the step that is counted
C27_Step ==
    /\ (processed' # processed /\ processed' \subseteq processed) =>
          /\ Cardinality(processed \ processed') = 1
          /\ queue' = queue
          /\ cache' = cache
          /\ UNCHANGED C27_Rest
    /\ hist'.invals = hist.invals + 1 =>
          /\ processed' = processed \ {P}
          /\ \A p \in Paths \ {P} : (p \in processed') <=> (p \in processed)
          /\ queue' = queue
          /\ cache' = cache
          /\ UNCHANGED C27_Rest
          /\ P \notin processed => UNCHANGED <<queue, processed, stopFlag, mutex, wpc, cur, cpc, src, cache, scan>>

\* C27: invalidate(p) takes p, and nothing else, out of the processed set: the
\* queue, every other path of the processed set and the cache file are left
\* as they were, and when p is not in the processed set nothing changes
C27_InvalidateFrame == [][C27_Step]_vars

\* invalidate(P) has been called with P processed and its cache file written,
\* while another path was queued
C27_Witness ==
    /\ hist.inv = "inv"
    /\ P \notin processed
    /\ cache \in Contents
    /\ queue # <<>>

\* ------------------------------------------------------------------ scanner, consumer and worker
\* str path of an item, as the worker's queue holds it
PathStr(fp) ==
    IF fp.file.n > 0 THEN ToString(fp.file.n)
    ELSE IF fp.file.stem = "a" THEN P
    ELSE IF fp.file.stem = "b" THEN Q
    ELSE fp.file.stem

\* a list without its first path
BatchPathsButFirst(batch) == [i \in 1..(Len(batch) - 1) |-> PathStr(batch[i + 1].path)]
\* main_window.py line 365: [i.path for i in batch]
BatchPaths(batch) == [i \in DOMAIN batch |-> PathStr(batch[i].path)]

\* main_window.py line 96: self._thumb_worker = None; _start_scan (lines
\* 333-344) has made the scanner
PipeRootLists == {<<(<<"big">>), <<"r">>>>, <<(<<"r">>)>>}
InitPipe ==
    /\ queue = <<>>
    /\ processed = {}
    /\ stopFlag = FALSE
    /\ mutex = "free"
    /\ wpc = "none"
    /\ cur = None
    /\ cpc = "idle"
    /\ src = "v1"
    /\ cache = NoFile
    /\ hist = HistInit
    /\ call = Off
    /\ scan \in {ScanCreated(r, NoHidden, FALSE) : r \in PipeRootLists}

\* _on_items_found, lines 346-364: the slot runs in the consumer's thread for
\* the next emitted list; the worker is made and started when there is none
FoundBegin ==
    /\ cpc = "idle"
    /\ scan.delivered < Len(scan.emitted)
    /\ cpc' = "found"
    /\ wpc' = IF wpc = "none" THEN "loop" ELSE wpc
    /\ UNCHANGED <<queue, processed, stopFlag, mutex, cur, src, cache, hist, scan, call>>

\* _on_items_found, line 365: enqueue_batch([i.path for i in batch]) is
\* called; line 48: self._mutex.lock()
FoundLock ==
    /\ cpc = "found" /\ mutex = "free"
    /\ mutex' = "consumer"
    /\ cpc' = "batch"
    /\ UNCHANGED <<queue, processed, stopFlag, wpc, cur, src, cache, hist, scan, call>>

\* enqueue_batch, lines 49-51: one turn of the loop, the mutex held (the
\* worker's test and add of lines 90-92 do not take the mutex and can fall
\* between two turns)
FoundItem ==
    /\ cpc = "batch"
    /\ LET ps == BatchPaths(scan.emitted[scan.delivered + 1])
       IN /\ scan.taken < Len(ps)
          /\ queue' = EnqueueBatchQueue(queue, processed, <<ps[scan.taken + 1]>>)
          /\ hist' = [hist EXCEPT !.again = IF @ = "no" /\ ps[scan.taken + 1] = P
                                               /\ P \in processed
                                            THEN "late" ELSE @]
    /\ scan' = [scan EXCEPT !.taken = @ + 1]
    /\ UNCHANGED <<processed, stopFlag, mutex, wpc, cur, cpc, src, cache, call>>

\* enqueue_batch, lines 52-53: wakeOne, unlock; the slot returns
FoundUnlock ==
    /\ cpc = "batch"
    /\ scan.taken >= Len(BatchPaths(scan.emitted[scan.delivered + 1]))
    /\ wpc' = Woken(wpc)
    /\ mutex' = "free"
    /\ cpc' = "idle"
    /\ scan' = [scan EXCEPT !.delivered = @ + 1, !.taken = 0]
    /\ UNCHANGED <<queue, processed, stopFlag, cur, src, cache, hist, call>>

OnItemsFound == FoundBegin \/ FoundLock \/ FoundItem \/ FoundUnlock

\* the paths of the lists the slot has taken
Shown ==
    UNION {{PathStr(scan.emitted[i][k].path) : k \in DOMAIN scan.emitted[i]} :
              i \in 1..scan.delivered}

\* _on_cropped (lines 768-773) and _do_unhide (lines 750-751) for an item the
\* gallery shows: invalidate and enqueue, when there is a worker
User ==
    /\ wpc # "none"
    /\ P \in Shown
    /\ Enqueue(P) \/ Invalidate(P)

NextPipe == Scanner \/ OnItemsFound \/ Worker \/ User
\* the scanner and the worker are threads, and the consumer's event loop
\* delivers a queued signal
PipeSpec ==
    /\ InitPipe /\ [][NextPipe]_vars
    /\ WF_vars(Scanner) /\ WF_vars(OnItemsFound) /\ WF_vars(Worker)

\* every path of a list the slot has taken is queued, in the worker's hand
\* or processed, or is P after an invalidate(P)
C28_Passed ==
    \A p \in Shown :
        \/ InSeq(p, queue) \/ p = cur \/ p \in processed
        \/ p = P /\ hist.invals > 0

\* every emitted path has been processed
C28_Served ==
    /\ scan.delivered = Len(scan.emitted)
    /\ \A i \in DOMAIN EmittedItems :
          LET p == PathStr(EmittedItems[i].path)
          IN IF p = P THEN hist.attempts >= 1 ELSE p \in processed

\* a path other than P is put into the processed set once
C28_Step ==
    (wpc = "add" /\ wpc' = "gen") => cur \notin processed

\* C28 (as claimed): every path of an emitted list is passed to the worker,
\* which is made on the first list, and without stop() each such path is
\* taken from the queue and processed exactly once
C28_ExactlyOnce ==
    /\ [](scan.pc # "idle" => C28_Passed)
    /\ [](scan.pc # "idle" => (wpc = "none" <=> scan.delivered = 0 /\ cpc = "idle"))
    /\ [][C28_Step]_vars
    /\ <>[](scan.pc # "idle" /\ C28_Served)
    /\ [](hist.attempts <= 1)

\* C28 (amended): the same, with exactly once for a path that is not
\* invalidated
C28_OnceUnlessInvalidated ==
    /\ [](scan.pc # "idle" => C28_Passed)
    /\ [](scan.pc # "idle" => (wpc = "none" <=> scan.delivered = 0 /\ cpc = "idle"))
    /\ [][C28_Step]_vars
    /\ <>[](scan.pc # "idle" /\ C28_Served)
    /\ [](hist.invals = 0 => hist.attempts <= 1)

\* the second list, with P, has been passed to the worker made on the first,
\* and P has been processed once
C28_Witness ==
    /\ scan.pc # "idle"
    /\ scan.delivered = 2
    /\ P \in Shown
    /\ hist.attempts = 1 /\ hist.finished = 1
    /\ hist.invals = 0

\* C29 (as claimed): whatever enqueue, enqueue_batch, prioritize and
\* invalidate calls and worker steps have happened, no path is in the queue
\* more than once
C29_NoRepeats == NoRepeat(queue)

\* ------------------------------------------------------------------ hide and unhide
\* The consumer has a worker and the gallery lists P; call follows the item:
\* "listed", "hidden" (moved to the hidden directory, with the number of
\* thumbnail_ready(P) emissions at that moment) and "restored" (moved back to
\* P, with that number and the number at the moment of the enqueue)
Item(op, arg) == [op |-> op, arg |-> arg, queue |-> <<>>, processed |-> {}]
InitHide ==
    /\ InitThumb
    /\ scan = ScanIdle
    /\ call = Item("listed", <<0, 0>>)

\* _on_items_found, line 365, for the list that holds P
Listing ==
    /\ call.op = "listed"
    /\ EnqueueBatch(<<P>>)

\* _do_hide, lines 729-734: hide_file moves the file, _remove_item drops the
\* item and its pixmap; the worker is not told
Hide ==
    /\ cpc = "idle"
    /\ call.op = "listed"
    /\ call' = Item("hidden", <<hist.emits, 0>>)
    /\ UNCHANGED <<thumbVars, scan>>

\* _do_unhide, lines 736-751: unhide_file moves the file back to P, the
\* item is listed again and enqueue(item.path) is called
Unhide ==
    /\ cpc = "idle" /\ mutex = "free"
    /\ call.op = "hidden"
    /\ LET accepted == EnqueueAccepts(queue, processed, P)
       IN /\ queue' = EnqueueQueue(queue, processed, P)
          /\ wpc' = IF accepted THEN Woken(wpc) ELSE wpc
          /\ hist' = [hist EXCEPT
                        !.again = IF @ # "no" THEN @
                                  ELSE IF P \in processed THEN "late"
                                  ELSE IF accepted /\ cur = P /\ wpc \in {"chk_proc", "add"}
                                      THEN "raced"
                                  ELSE @,
                        !.inv = IF @ = "inv" THEN "invEnq" ELSE @]
    /\ call' = Item("restored", <<call.arg[1], hist.emits>>)
    /\ UNCHANGED <<processed, stopFlag, mutex, cur, cpc, src, cache, scan>>

NextHide == Worker \/ Listing \/ Hide \/ Unhide
HideSpec == InitHide /\ [][NextHide]_vars /\ WF_vars(Worker)

\* C30 (as claimed): when P, whose thumbnail had been produced, was hidden and
\* is restored to its path, the enqueue of the restored path is followed by
\* a new thumbnail_ready(P)
C30_UnhideEmits ==
    (call.op = "restored" /\ call.arg[1] >= 1) ~> (hist.emits > call.arg[2])
====
